---- MODULE Spec2Model ----
(***************************************************************************)
(* Model of src/main.py: a FastAPI application that forwards search,       *)
(* summary and random-article requests to the `wikipedia` library.         *)
(*                                                                         *)
(* State: the shared WikipediaClient (its `language` field), the           *)
(* process-wide language of the `wikipedia` module (set by set_lang), the  *)
(* event loop (which request's handler is executing), and one task per     *)
(* request slot with the handler's position and locals.                    *)
(*                                                                         *)
(* Every route handler is an `async def` run on the one event loop.  A     *)
(* handler is cut into steps at its upstream calls; after a step the       *)
(* handler keeps the loop unless the call suspends it (Suspends).  Another *)
(* request's handler starts only when the loop is free.                    *)
(*                                                                         *)
(* History, read by the properties and never by the handlers: `calls`, the *)
(* upstream calls a request made, `langAtStart`, the upstream language     *)
(* when its handler started, and `delivered`, the request answered last.   *)
(***************************************************************************)
EXTENDS Integers, Sequences, FiniteSets, TLC

VARIABLES
    language,   \* wikipedia_client.language (WikipediaClient.__init__)
    wikiLang,   \* the wikipedia module's language, as set by wikipedia.set_lang
    running,    \* the request whose handler holds the event loop, 0 when none
    task,       \* per request slot: position, inputs, locals, calls, response
    delivered   \* the request answered last, as it was when its response left

vars == <<language, wikiLang, running, task, delivered>>

---------------------------------------------------------------------------
\* Bounds of the model.

\* Number of request slots (requests the server may hold at the same time).
NumReqs == 2

\* Largest number of articles the upstream index holds for a query.
MaxMatches == 2

---------------------------------------------------------------------------
\* Constants of the program.

DefaultLimit == 10

MinLimit == 1

MaxLimit == 50

MaxCategories == 5

MaxOptions == 5

SummarySentences == 3

ClientDefaultLanguage == "ru"

RandomDefaultLanguage == "ru"

---------------------------------------------------------------------------
\* Inputs.

Reqs == 1..NumReqs

\* Path segments a client sends after /articles/.
Segs == {"search", "summary", "random", "Python"}

\* Titles the upstream random selection may return.
RandomTitles == {"Python", "Moscow"}

Paths ==
    {<<>>, <<"articles">>, <<"articles", "random">>}
        \cup {<<"articles", "search", q>> : q \in Segs}
        \cup {<<"articles", t, "summary">> : t \in Segs}

\* An optional query parameter is <<>> when absent and <<v>> when supplied.
LimitParams ==
    {<<>>, <<MinLimit - 1>>, <<MinLimit>>, <<MaxLimit>>, <<MaxLimit + 1>>}

LanguageParams == {<<>>, <<"ru">>, <<"en">>, <<"de">>}

---------------------------------------------------------------------------
\* Sequences.

Take(s, n) == SubSeq(s, 1, IF n < Len(s) THEN n ELSE Len(s))

\* The first n names of a list kept upstream: "1", "2", ...
Names(n) == [i \in 1..n |-> ToString(i)]

---------------------------------------------------------------------------
\* Routing: the routes in the order the decorators register them.  A pattern
\* segment in braces is a path parameter and matches any one segment.

Routes ==
    << [name |-> "root", pattern |-> <<>>],
       [name |-> "search_articles", pattern |-> <<"articles", "search", "{query}">>],
       [name |-> "get_article_summary", pattern |-> <<"articles", "{title}", "summary">>],
       [name |-> "get_random_article", pattern |-> <<"articles", "random">>] >>

IsParam(seg) == seg \in {"{query}", "{title}"}

Matches(pattern, path) ==
    /\ Len(pattern) = Len(path)
    /\ \A i \in 1..Len(pattern) : IsParam(pattern[i]) \/ pattern[i] = path[i]

\* The router walks the routes in registration order and takes the first
\* whose pattern matches; 0 when none does.
Dispatch(path) ==
    LET hits == {i \in 1..Len(Routes) : Matches(Routes[i].pattern, path)}
    IN  IF hits = {} THEN 0 ELSE CHOOSE i \in hits : \A j \in hits : i <= j

Handler(path) ==
    IF Dispatch(path) = 0 THEN "none" ELSE Routes[Dispatch(path)].name

\* The value bound to the path parameter of the route that handles the path.
PathParam(path) ==
    LET pattern == Routes[Dispatch(path)].pattern
        at == {i \in 1..Len(pattern) : IsParam(pattern[i])}
    IN  IF at = {} THEN "" ELSE path[CHOOSE i \in at : TRUE]

\* Variant: the upper bound of limit is not validated.
ValidLimitNoUpper(param) ==
    (IF param = <<>> THEN DefaultLimit ELSE param[1]) >= MinLimit

\* limit: int = Query(10, ge=1, le=50)
LimitValue(param) == IF param = <<>> THEN DefaultLimit ELSE param[1]

\* ge=1, le=50
ValidLimit(param) == LimitValue(param) >= MinLimit /\ LimitValue(param) <= MaxLimit

\* language: str = Query("ru")
LanguageValue(param) == IF param = <<>> THEN RandomDefaultLanguage ELSE param[1]

---------------------------------------------------------------------------
\* The upstream library.  Each primitive is one call whose outcome the
\* gateway does not control: a value, or an exception.  Values are sequences
\* of strings.

NoExc == [type |-> "none", options |-> <<>>, text |-> ""]

DisambiguationError(n) ==
    [type |-> "DisambiguationError", options |-> Names(n), text |-> "may refer to"]

PageError == [type |-> "PageError", options |-> <<>>, text |-> "no match"]

OtherError == [type |-> "Exception", options |-> <<>>, text |-> "timed out"]

\* A title that upstream reports ambiguous has two candidates or more.
LookupErrors ==
    {DisambiguationError(n) : n \in {2, MaxOptions + 1}} \cup {PageError, OtherError}

Ok(v) == [ok |-> TRUE, val |-> v, exc |-> NoExc]

Err(e) == [ok |-> FALSE, val |-> <<>>, exc |-> e]

\* wikipedia.search(query, results=limit): the first `results` matches, ranked.
WikipediaSearch(query, results) ==
    {Ok(Take(Names(m), results)) : m \in 0..MaxMatches} \cup {Err(OtherError)}

\* wikipedia.page(title): the page in the language set at the time of the call.
WikipediaPage(title, lang) ==
    {Ok(<<lang, "wikipedia.org", title>>)} \cup {Err(e) : e \in LookupErrors}

\* wikipedia.summary(title, sentences=3)
WikipediaSummary(title, sentences) ==
    {Ok(<<title, ToString(sentences)>>)} \cup {Err(e) : e \in LookupErrors}

\* page.categories, fetched when first read.
PageCategories ==
    {Ok(Names(n)) : n \in {0, MaxCategories + 1}} \cup {Err(OtherError)}

\* wikipedia.random(pages=1): one title.
WikipediaRandom(pages) ==
    {Ok(<<t>>) : t \in RandomTitles} \cup {Err(OtherError)}

\* Variant: upstream calls that are awaited, so that the handler is suspended
\* during each and other handlers run meanwhile.
SuspendsAtUpstream(fn) == fn \in {"search", "random", "page", "summary", "categories"}

\* Whether the handler gives up the event loop at an upstream call.  The
\* wikipedia.* calls are plain function calls (no await): they block the loop
\* until they return.
Suspends(fn) == FALSE

Yield(fn, r) == IF Suspends(fn) THEN 0 ELSE r

---------------------------------------------------------------------------
\* Responses.

NoResp == [status |-> 0, body |-> [kind |-> "none"]]

HTTPException(status_code, msg, info) ==
    [status |-> status_code,
     body |-> [kind |-> "error", detail |-> [msg |-> msg, info |-> info]]]

\* str(e) of an HTTPException: "<status>: <detail>".
StrHTTP(h) == <<ToString(h.status), h.body.detail.msg>> \o h.body.detail.info

\* Variant: total_results reports the requested limit.
SearchResultTotalIsLimit(query, limit, out) ==
    IF out.ok
    THEN [status |-> 200,
          body |-> [kind |-> "search", query |-> query, limit |-> limit,
                    total_results |-> limit, results |-> out.val]]
    ELSE HTTPException(500, "search error", <<out.exc.text>>)

\* search_articles: the result, or the except clause.
SearchResult(query, limit, out) ==
    IF out.ok
    THEN [status |-> 200,
          body |-> [kind |-> "search", query |-> query, limit |-> limit,
                    total_results |-> Len(out.val), results |-> out.val]]
    ELSE HTTPException(500, "search error", <<out.exc.text>>)

\* Variant: the categories are not cut to the first 5.
ArticleSummaryAllCategories(title, summary, page, categories) ==
    [status |-> 200,
     body |-> [kind |-> "summary", title |-> title, summary |-> summary,
               url |-> page, categories |-> categories]]

\* get_article_summary: the result dictionary.
ArticleSummary(title, summary, page, categories) ==
    [status |-> 200,
     body |-> [kind |-> "summary", title |-> title, summary |-> summary,
               url |-> page, categories |-> Take(categories, MaxCategories)]]

\* Variant: the generic except clause comes first and takes every exception.
SummaryErrorGenericFirst(e) == HTTPException(500, "article error", <<e.text>>)

\* get_article_summary: the except clauses, in order.
SummaryError(e) ==
    CASE e.type = "DisambiguationError" ->
            HTTPException(400, "ambiguous", Take(e.options, MaxOptions))
      [] e.type = "PageError" -> HTTPException(404, "page not found", <<>>)
      [] OTHER -> HTTPException(500, "article error", <<e.text>>)

\* WikipediaClient.get_random_article: `except Exception` around the random
\* selection.
RandomError(e) == HTTPException(500, "random article error", <<e.text>>)

\* Variant: an HTTPException of get_article_summary passes through unchanged.
RandomCatchPropagate(h) == h

\* WikipediaClient.get_random_article: the outcome h of get_article_summary
\* seen through the try block.  An HTTPException is an Exception, so the
\* except clause catches it.
RandomCatch(h) ==
    IF h.status = 200 THEN h
    ELSE HTTPException(500, "random article error", StrHTTP(h))

---------------------------------------------------------------------------
\* Tasks.

IdleTask ==
    [pc |-> "idle", path |-> <<>>, limit |-> <<>>, lang |-> <<>>,
     title |-> "", original_language |-> "", page |-> <<>>, summary |-> <<>>,
     calls |-> <<>>, resp |-> NoResp, langAtStart |-> ""]

IsRandom(t) == Handler(t.path) = "get_random_article"

\* One upstream call: the primitive, its arguments, the language set when it
\* was made, and how it ended.
Call(fn, arg, lang, out) == [fn |-> fn, arg |-> arg, lang |-> lang, out |-> out]

\* Variant: a lookup that failed with 500 is tried again, up to three times.
EndSummaryRetry(t, h) ==
    IF h.status = 500 /\ Len(t.calls) < 4
    THEN [t EXCEPT !.pc = "page"]
    ELSE IF Handler(t.path) = "get_random_article"
         THEN [t EXCEPT !.resp = h, !.pc = "finally"]
         ELSE [t EXCEPT !.resp = h, !.pc = "return"]

\* get_article_summary has ended with h: back in the route handler, or in
\* get_random_article when that is the caller.
EndSummary(t, h) ==
    IF IsRandom(t)
    THEN [t EXCEPT !.resp = RandomCatch(h), !.pc = "finally"]
    ELSE [t EXCEPT !.resp = h, !.pc = "return"]

\* The route handler's first lines: set_lang when the requested language is
\* not the client's.
OverrideLang(requested, current) ==
    IF requested # language THEN requested ELSE current

\* Variant: the language is restored after the return statement only, not in
\* a finally block.
FinallyLangOnSuccess(t, current) ==
    IF t.resp.status = 200 /\ LanguageValue(t.lang) # t.original_language
    THEN t.original_language ELSE current

\* Variant: the finally block sets the requested language again.
FinallyLangRequested(t, current) ==
    IF LanguageValue(t.lang) # t.original_language
    THEN LanguageValue(t.lang) ELSE current

\* The route handler's finally block.
FinallyLang(t, current) ==
    IF LanguageValue(t.lang) # t.original_language
    THEN t.original_language ELSE current

\* A request with its path and query parameters, as the framework hands it
\* to a route.
Request(path, lim, lng) ==
    [IdleTask EXCEPT !.path = path, !.limit = lim, !.lang = lng]

Init ==
    /\ language = ClientDefaultLanguage
    /\ wikiLang = ClientDefaultLanguage
    /\ running = 0
    /\ task = [r \in Reqs |-> IdleTask]
    /\ delivered = IdleTask

\* The loop is free and slot r holds no request yet: the framework may read
\* the next request into it and dispatch it.
Free(r) == task[r].pc = "idle" /\ running = 0

\* The loop is r's to run on: r holds it, or r was suspended and the loop is
\* free.
Runs(r, p) == task[r].pc = p /\ running \in {0, r}

\* No route matches: the framework answers 404.
NoRoute(r) ==
    /\ Free(r)
    /\ \E path \in Paths :
         /\ Handler(path) = "none"
         /\ delivered' = [Request(path, <<>>, <<>>) EXCEPT
                             !.pc = "done",
                             !.resp = HTTPException(404, "Not Found", <<>>)]
    /\ UNCHANGED <<language, wikiLang, running, task>>

\* The framework validates limit (ge=1, le=50) before the handler runs.
RejectLimit(r) ==
    /\ Free(r)
    /\ \E path \in Paths, lim \in LimitParams :
         /\ Handler(path) = "search_articles"
         /\ ~ValidLimit(lim)
         /\ delivered' = [Request(path, lim, <<>>) EXCEPT
                             !.pc = "done",
                             !.resp = HTTPException(422, "validation error", <<"limit">>)]
    /\ UNCHANGED <<language, wikiLang, running, task>>

Root(r) ==
    /\ Free(r)
    /\ \E path \in Paths :
         /\ Handler(path) = "root"
         /\ delivered' = [Request(path, <<>>, <<>>) EXCEPT
                             !.pc = "done",
                             !.resp = [status |-> 200,
                                       body |-> [kind |-> "root",
                                                 message |-> "Wikipedia API Wrapper",
                                                 version |-> "1.0.0"]]]
    /\ UNCHANGED <<language, wikiLang, running, task>>

BeginSearch(r) ==
    /\ Free(r)
    /\ \E path \in Paths, lim \in LimitParams :
         /\ Handler(path) = "search_articles"
         /\ ValidLimit(lim)
         /\ task' = [task EXCEPT ![r] =
                        [Request(path, lim, <<>>) EXCEPT
                            !.pc = "search", !.langAtStart = wikiLang]]
    /\ running' = r
    /\ UNCHANGED <<language, wikiLang, delivered>>

SearchCall(r) ==
    /\ Runs(r, "search")
    /\ LET query == PathParam(task[r].path)
           limit == LimitValue(task[r].limit)
       IN  \E out \in WikipediaSearch(query, limit) :
             task' = [task EXCEPT ![r].calls = Append(@, Call("search", <<query, ToString(limit)>>, wikiLang, out)),
                                  ![r].resp = SearchResult(query, limit, out),
                                  ![r].pc = "return"]
    /\ running' = Yield("search", r)
    /\ UNCHANGED <<language, wikiLang, delivered>>

BeginSummary(r) ==
    /\ Free(r)
    /\ \E path \in Paths :
         /\ Handler(path) = "get_article_summary"
         /\ task' = [task EXCEPT ![r] =
                        [Request(path, <<>>, <<>>) EXCEPT
                            !.pc = "page", !.title = PathParam(path),
                            !.langAtStart = wikiLang]]
    /\ running' = r
    /\ UNCHANGED <<language, wikiLang, delivered>>

BeginRandom(r) ==
    /\ Free(r)
    /\ \E path \in Paths, lng \in LanguageParams :
         /\ Handler(path) = "get_random_article"
         /\ task' = [task EXCEPT ![r] =
                        [Request(path, <<>>, lng) EXCEPT
                            !.pc = "random", !.original_language = language,
                            !.langAtStart = wikiLang]]
         /\ wikiLang' = OverrideLang(LanguageValue(lng), wikiLang)
    /\ running' = r
    /\ UNCHANGED <<language, delivered>>

RandomCall(r) ==
    /\ Runs(r, "random")
    /\ \E out \in WikipediaRandom(1) :
         LET t == [task[r] EXCEPT !.calls = Append(@, Call("random", <<"1">>, wikiLang, out))]
         IN  task' = [task EXCEPT ![r] =
                        IF out.ok
                        THEN [t EXCEPT !.title = out.val[1], !.pc = "page"]
                        ELSE [t EXCEPT !.resp = RandomError(out.exc), !.pc = "finally"]]
    /\ running' = Yield("random", r)
    /\ UNCHANGED <<language, wikiLang, delivered>>

PageCall(r) ==
    /\ Runs(r, "page")
    /\ \E out \in WikipediaPage(task[r].title, wikiLang) :
         LET t == [task[r] EXCEPT !.calls = Append(@, Call("page", <<task[r].title>>, wikiLang, out))]
         IN  task' = [task EXCEPT ![r] =
                        IF out.ok
                        THEN [t EXCEPT !.page = out.val, !.pc = "summary"]
                        ELSE EndSummary(t, SummaryError(out.exc))]
    /\ running' = Yield("page", r)
    /\ UNCHANGED <<language, wikiLang, delivered>>

SummaryCall(r) ==
    /\ Runs(r, "summary")
    /\ \E out \in WikipediaSummary(task[r].title, SummarySentences) :
         LET t == [task[r] EXCEPT !.calls = Append(@, Call("summary", <<task[r].title, ToString(SummarySentences)>>, wikiLang, out))]
         IN  task' = [task EXCEPT ![r] =
                        IF out.ok
                        THEN [t EXCEPT !.summary = out.val, !.pc = "categories"]
                        ELSE EndSummary(t, SummaryError(out.exc))]
    /\ running' = Yield("summary", r)
    /\ UNCHANGED <<language, wikiLang, delivered>>

CategoriesCall(r) ==
    /\ Runs(r, "categories")
    /\ \E out \in PageCategories :
         LET t == [task[r] EXCEPT !.calls = Append(@, Call("categories", <<task[r].title>>, wikiLang, out))]
         IN  task' = [task EXCEPT ![r] =
                        IF out.ok
                        THEN EndSummary(t, ArticleSummary(t.title, t.summary, t.page, out.val))
                        ELSE EndSummary(t, SummaryError(out.exc))]
    /\ running' = Yield("categories", r)
    /\ UNCHANGED <<language, wikiLang, delivered>>

\* The search or summary route handler returns (or raises) to the framework,
\* which sends the response; the request is discarded.
Return(r) ==
    /\ Runs(r, "return")
    /\ delivered' = [task[r] EXCEPT !.pc = "done"]
    /\ task' = [task EXCEPT ![r] = IdleTask]
    /\ running' = 0
    /\ UNCHANGED <<language, wikiLang>>

\* The random route handler's finally block, then its return (or raise).
Finally(r) ==
    /\ Runs(r, "finally")
    /\ wikiLang' = FinallyLang(task[r], wikiLang)
    /\ delivered' = [task[r] EXCEPT !.pc = "done"]
    /\ task' = [task EXCEPT ![r] = IdleTask]
    /\ running' = 0
    /\ UNCHANGED language

Next ==
    \E r \in Reqs :
        \/ NoRoute(r)
        \/ RejectLimit(r)
        \/ Root(r)
        \/ BeginSearch(r)
        \/ SearchCall(r)
        \/ BeginSummary(r)
        \/ BeginRandom(r)
        \/ RandomCall(r)
        \/ PageCall(r)
        \/ SummaryCall(r)
        \/ CategoriesCall(r)
        \/ Return(r)
        \/ Finally(r)

Spec == Init /\ [][Next]_vars

---------------------------------------------------------------------------
\* Properties.

AllTasks == {task[r] : r \in Reqs} \cup {delivered}

Done(t) == t.pc = "done"

HandledBy(t, name) == t.pc # "idle" /\ Handler(t.path) = name

Count(calls, fn) == Cardinality({i \in DOMAIN calls : calls[i].fn = fn})

\* Every call of t but the last ended well.
OnlyLastMayFail(t) == \A i \in DOMAIN t.calls : i < Len(t.calls) => t.calls[i].out.ok

Failed(t) == t.calls # <<>> /\ ~t.calls[Len(t.calls)].out.ok

LastExc(t) == t.calls[Len(t.calls)].out.exc

\* The language a GetRandom request asks for.
Asked(t) == IF t.lang = <<>> THEN "ru" ELSE t.lang[1]

Overrides(t) == HandledBy(t, "get_random_article") /\ Asked(t) # ClientDefaultLanguage

\* C1: when a GetRandom request that asks for a language other than the
\* configured one completes, with a summary or with an error, the upstream
\* language is the one that was set just before the request started.
C1_RestoresPriorLanguage ==
    [][\A r \in Reqs :
          (Overrides(task[r]) /\ task[r].pc = "finally" /\ task'[r].pc = "idle")
              => wikiLang' = task[r].langAtStart]_vars

\* C1 witness: an overriding GetRandom has failed and the language is back.
C1_Witness ==
    /\ Done(delivered) /\ Overrides(delivered)
    /\ delivered.resp.status = 500
    /\ wikiLang = delivered.langAtStart

\* The language a request's upstream calls are meant to be made in.
OwnLanguage(t) ==
    IF HandledBy(t, "get_random_article") THEN Asked(t) ELSE ClientDefaultLanguage

\* C2 as stated: while a GetRandom override is in force between the upstream
\* calls of its request, another request's handler can start and make its
\* own upstream call under that override.
C2_OverrideVisibleToOthers ==
    \A r, o \in Reqs :
        (/\ r # o
         /\ Overrides(task[r])
         /\ task[r].pc \in {"page", "summary", "categories", "finally"}
         /\ task[o].pc = "idle")
            => ENABLED BeginSearch(o)

\* C2 amended: a handler keeps the event loop from its first line to its
\* last, so every upstream call of every request is made in the request's
\* own language; no request sees another request's override.
C2_CallsInOwnLanguage ==
    \A t \in AllTasks : \A i \in DOMAIN t.calls : t.calls[i].lang = OwnLanguage(t)

\* C2 witness: a request makes its upstream call right after an overriding
\* GetRandom was answered.
C2_Witness ==
    /\ Done(delivered) /\ Overrides(delivered)
    /\ \E r \in Reqs :
         /\ task[r].calls # <<>>
         /\ OwnLanguage(task[r]) # Asked(delivered)

\* C3: GetSummary ends in exactly one of four ways, decided by its upstream
\* reads: all succeed -> 200 with title, summary, url and at most 5
\* categories; ambiguous -> 400 listing the first (at most 5, at least one)
\* options in order; not found -> 404; any other failure -> 500.
C3_SummaryOutcomes ==
    LET t == delivered IN
    (Done(t) /\ HandledBy(t, "get_article_summary")) =>
        /\ t.calls # <<>>
        /\ OnlyLastMayFail(t)
        /\ IF ~Failed(t)
           THEN /\ Len(t.calls) = 3
                /\ t.resp.status = 200
                /\ t.resp.body.title = t.path[2]
                /\ t.resp.body.url = t.calls[1].out.val
                /\ t.resp.body.summary = t.calls[2].out.val
                /\ Len(t.resp.body.categories) <= 5
                /\ t.resp.body.categories =
                      SubSeq(t.calls[3].out.val, 1, Len(t.resp.body.categories))
                /\ Len(t.calls[3].out.val) > 5 => Len(t.resp.body.categories) = 5
           ELSE CASE LastExc(t).type = "DisambiguationError" ->
                       /\ t.resp.status = 400
                       /\ Len(t.resp.body.detail.info) \in 1..5
                       /\ t.resp.body.detail.info =
                             SubSeq(LastExc(t).options, 1, Len(t.resp.body.detail.info))
                       /\ Len(LastExc(t).options) > 5
                             => Len(t.resp.body.detail.info) = 5
                  [] LastExc(t).type = "PageError" -> t.resp.status = 404
                  [] OTHER -> t.resp.status = 500

\* C3 witness: an ambiguous title with more than 5 options was answered 400.
C3_Witness ==
    /\ Done(delivered) /\ HandledBy(delivered, "get_article_summary")
    /\ Failed(delivered)
    /\ LastExc(delivered).type = "DisambiguationError"
    /\ Len(LastExc(delivered).options) > 5
    /\ delivered.resp.status = 400

\* C4 as stated: GetRandom always answers 200 with the summary shape.
C4_RandomAlways200 ==
    (Done(delivered) /\ HandledBy(delivered, "get_random_article"))
        => delivered.resp.status = 200 /\ delivered.resp.body.kind = "summary"

\* C4 amended: GetRandom answers 200 with the shape of a GetSummary success
\* (the selected title, its summary, its url, at most 5 categories) when the
\* random selection and the lookup of that title succeed, and 500 otherwise.
C4_RandomShapeOr500 ==
    LET t == delivered IN
    (Done(t) /\ HandledBy(t, "get_random_article")) =>
        IF ~Failed(t)
        THEN /\ Len(t.calls) = 4
             /\ t.resp.status = 200
             /\ t.resp.body.kind = "summary"
             /\ DOMAIN t.resp.body = {"kind", "title", "summary", "url", "categories"}
             /\ t.resp.body.title = t.calls[1].out.val[1]
             /\ t.resp.body.url = t.calls[2].out.val
             /\ t.resp.body.summary = t.calls[3].out.val
             /\ Len(t.resp.body.categories) <= 5
             /\ t.resp.body.categories =
                   SubSeq(t.calls[4].out.val, 1, Len(t.resp.body.categories))
        ELSE t.resp.status = 500 /\ t.resp.body.kind = "error"

\* C4 witness: a GetRandom answered 200 for a page with more than 5
\* categories.
C4_Witness ==
    /\ Done(delivered) /\ HandledBy(delivered, "get_random_article")
    /\ delivered.resp.status = 200
    /\ Len(delivered.calls) = 4
    /\ Len(delivered.calls[4].out.val) > 5

\* C5: for a valid limit N, Search answers 200 echoing the query and N, with
\* at most N titles in upstream order and total_results equal to their
\* number, or, when the upstream search fails, 500 with the failure text.
C5_SearchOutcomes ==
    LET t == delivered
        N == IF t.limit = <<>> THEN 10 ELSE t.limit[1]
    IN  (Done(t) /\ HandledBy(t, "search_articles") /\ N \in 1..50) =>
            /\ Len(t.calls) = 1
            /\ IF t.calls[1].out.ok
               THEN /\ t.resp.status = 200
                    /\ t.resp.body.query = t.path[3]
                    /\ t.resp.body.limit = N
                    /\ t.resp.body.results = t.calls[1].out.val
                    /\ Len(t.resp.body.results) <= N
                    /\ t.resp.body.total_results = Len(t.resp.body.results)
               ELSE /\ t.resp.status = 500
                    /\ t.resp.body.detail.info = <<t.calls[1].out.exc.text>>

\* C5 witness: a search with limit 1 answered with exactly one title.
C5_Witness ==
    /\ Done(delivered) /\ HandledBy(delivered, "search_articles")
    /\ delivered.limit = <<1>>
    /\ delivered.resp.status = 200
    /\ delivered.resp.body.total_results = 1

\* The limit of C6: the supplied limit brought into 1..50.
Clamped(n) == IF n < 1 THEN 1 ELSE IF n > 50 THEN 50 ELSE n

\* C6 as stated: a missing limit is 10, and any supplied limit is clamped
\* into 1..50: upstream search is called with the clamped value and the
\* request does not fail because of the limit.
C6_LimitClamped ==
    LET t == delivered
        N == IF t.limit = <<>> THEN 10 ELSE t.limit[1]
    IN  (Done(t) /\ HandledBy(t, "search_articles")) =>
            /\ t.resp.status # 422
            /\ Len(t.calls) = 1
            /\ t.calls[1].arg = <<t.path[3], ToString(Clamped(N))>>

\* C6 amended: a missing limit is 10; a limit in 1..50 is passed to upstream
\* search unchanged; a limit outside 1..50 is rejected with HTTP 422 before
\* any upstream call.
C6_LimitValidated ==
    LET t == delivered
        N == IF t.limit = <<>> THEN 10 ELSE t.limit[1]
    IN  (Done(t) /\ HandledBy(t, "search_articles")) =>
            IF N \in 1..50
            THEN /\ t.resp.status # 422
                 /\ Len(t.calls) = 1
                 /\ t.calls[1].arg = <<t.path[3], ToString(N)>>
            ELSE t.resp.status = 422 /\ t.calls = <<>>

\* C6 witness: a search with limit 51 was rejected.
C6_Witness ==
    /\ Done(delivered) /\ HandledBy(delivered, "search_articles")
    /\ delivered.limit = <<51>>
    /\ delivered.resp.status = 422

\* C7: no retry and no recovery: each upstream primitive is called at most
\* once per request, random comes before the lookup, a failed call is the
\* request's last call, and the request then ends with an HTTP error.
C7_NoRetry ==
    \A t \in AllTasks :
        /\ \A fn \in {"search", "random", "page", "summary", "categories"} :
              Count(t.calls, fn) <= 1
        /\ OnlyLastMayFail(t)
        /\ Count(t.calls, "search") = 1 => Len(t.calls) = 1
        /\ \A i \in DOMAIN t.calls : t.calls[i].fn = "random" => i = 1
        /\ Failed(t) => t.pc \in {"return", "finally", "done"} /\ t.resp.status >= 400

\* C7 witness: a GetRandom whose summary call failed after random and page
\* succeeded.
C7_Witness ==
    /\ Done(delivered) /\ Failed(delivered)
    /\ Len(delivered.calls) = 3
    /\ delivered.calls[1].fn = "random"

\* C8: a request for /articles/{title}/summary is handled by GetSummary with
\* that title, whatever the title (also "search" and "random"), and a request
\* for /articles/search/{query} by Search with that query.
C8_DispatchByPattern ==
    LET t == delivered IN
    (Done(t) /\ Len(t.path) = 3) =>
        /\ (t.path[1] = "articles" /\ t.path[3] = "summary" /\ t.limit = <<>>) =>
              /\ t.title = t.path[2]
              /\ t.calls # <<>>
              /\ t.calls[1].fn = "page" /\ t.calls[1].arg = <<t.path[2]>>
        /\ (t.path[1] = "articles" /\ t.path[2] = "search" /\ t.limit = <<>>) =>
              /\ t.calls # <<>>
              /\ t.calls[1].fn = "search"
              /\ t.calls[1].arg = <<t.path[3], "10">>

\* C9: GetRandom ends with 200 or with 500, never with 400 or 404: an
\* ambiguous or missing random title, and a failed random selection, are all
\* answered 500.
C9_RandomOnly200Or500 ==
    LET t == delivered IN
    (Done(t) /\ HandledBy(t, "get_random_article")) =>
        /\ t.resp.status \in {200, 500}
        /\ Failed(t) => t.resp.status = 500

\* C9 witness: the random title was not found, and the answer was 500.
C9_Witness ==
    /\ Done(delivered) /\ HandledBy(delivered, "get_random_article")
    /\ Failed(delivered)
    /\ LastExc(delivered).type = "PageError"
    /\ delivered.resp.status = 500

\* C10: the client's language field never changes, and whenever no GetRandom
\* request is in flight the upstream language is that configured language.
C10_LanguageAtRest ==
    /\ language = "ru"
    /\ (\A r \in Reqs : ~HandledBy(task[r], "get_random_article")) => wikiLang = language

\* C10 witness: an overriding GetRandom was answered and another request is
\* in its handler.
C10_Witness ==
    /\ Done(delivered) /\ Overrides(delivered)
    /\ \E r \in Reqs : task[r].pc = "return"

====
